---- MODULE Spec2Model ----
(***************************************************************************)
(* Turn-taking state machine of the LangGraph coding agent (src/agent.py)  *)
(* and its process boundary (src/main.py).                                 *)
(*                                                                         *)
(* The conversation of thread "1" is the checkpointed channel `messages`   *)
(* (AgentState.messages, reducer add_messages).  One action is one         *)
(* superstep of the compiled graph: the node runs, its returned messages   *)
(* are appended by the reducer and the checkpoint of the step is written.  *)
(* The process can be killed or cancelled between two supersteps and be    *)
(* started again; the conversation survives in checkpoints.db.             *)
(***************************************************************************)
EXTENDS Integers, Sequences, FiniteSets, TLC

(***************************************************************************)
(* Bounds of the exploration.                                              *)
(***************************************************************************)
\* longest tool_calls batch the backend returns
MaxBatch == 2
\* the backend requests tools or fails, and the process is killed or
\* cancelled, only while the conversation has fewer messages than this;
\* later turns are plain text turns
MaxDetail == 4
\* number of process starts explored
MaxRuns == 2

(***************************************************************************)
(* Program constants.                                                      *)
(***************************************************************************)
\* run() passes a config without "recursion_limit": the graph runs at most
\* the library default number of supersteps per ainvoke
RecursionLimit == 25

LocalTools == {"run_unit_tests"}

Providers ==
    {"Run_Python_MCP", "duckduckgo_MCP", "desktop_commander_in_docker_MCP", "Github_MCP"}

\* the tools a started provider advertises (one per provider, named after it)
ProviderTools(p) == {p}

Nodes == {"user_input", "model_response", "tool_use"}

(***************************************************************************)
(* Messages.  Content is abstracted to its kind.                           *)
(***************************************************************************)
Msg(role, content, calls, cid) ==
    [role |-> role, content |-> content, tool_calls |-> calls, tool_call_id |-> cid]

AIMessage(content, calls) == Msg("ai", content, calls, 0)
HumanMessage(content) == Msg("human", content, <<>>, 0)
ToolMessage(content, cid) == Msg("tool", content, <<>>, cid)

Greeting == AIMessage("What can I do for you?", <<>>)

\* a channel without reducer: the update overwrites the saved value
add_messages_overwrite(left, right) == right

\* add_messages: the messages of an update carry fresh ids, so they are appended
add_messages(left, right) == left \o right

Last(s) == s[Len(s)]

(***************************************************************************)
(* Inputs from the environment.                                            *)
(***************************************************************************)
\* tool names the backend may ask for; the last one is in no registry
RequestNames == {"run_unit_tests", "duckduckgo_MCP", "no_such_tool"}

\* name sequences of the batches the backend may return
Batches == UNION {[1..n -> RequestNames] : n \in 0..MaxBatch}

\* the backend gives every tool call of a conversation a unique id
CallId(n, j) == (MaxBatch + 2) * n + j

\* the response of the backend to a prompt ending a conversation of n messages
Response(n, names) ==
    AIMessage("text", [j \in 1..Len(names) |-> [id |-> CallId(n, j), name |-> names[j]]])

\* what running a tool does: it returns, it fails and ToolNode reports the
\* failure as a Tool message, or its failure is raised out of ToolNode.ainvoke
Outcomes == {"ok", "error", "raise"}

\* what console.print does during a node step: every panel is printed, the
\* first panel of the step raises and a later one is printed, or every panel
\* raises
Renders == {"ok", "fail", "fatal"}

VARIABLES
    messages,      \* persisted conversation of thread "1"
    pc,            \* "init", "run" or the node to run next
    step,          \* supersteps executed by the current ainvoke
    exc,           \* what ended the process; "none" while it runs
    initialized,   \* Agent._initialized
    tools,         \* Agent.tools (names)
    started,       \* providers that launched during discovery
    handle,        \* checkpointer connection: "closed" or "open"
    opens,         \* connections to checkpoints.db opened by the process
    closes,        \* connections to checkpoints.db closed by the process
    backend,       \* result of the last backend call: "idle", "ok", "failed"
    backendCalls,  \* backend calls made by the current process
    outcome,       \* outcomes of the calls of the last tool_use phase
    sink,          \* how the console rendered the output of the last node step
    launched,      \* per iteration of the last tool_use phase, the calls run together
    prompt,        \* the messages of the last backend call of the process
    runs,          \* process starts so far
    prev           \* how and where the previous process ended

vars == <<messages, pc, step, exc, initialized, tools, started, handle, opens, closes,
          backend, backendCalls, outcome, sink, launched, prompt, runs, prev>>

NoPrev == [exc |-> "none", pc |-> "init", messages |-> <<>>]

Init ==
    /\ messages = <<>>
    /\ pc = "init"
    /\ step = 0
    /\ exc = "none"
    /\ initialized = FALSE
    /\ tools = {}
    /\ started = {}
    /\ handle = "closed"
    /\ opens = 0
    /\ closes = 0
    /\ backend = "idle"
    /\ backendCalls = 0
    /\ outcome = <<>>
    /\ sink = <<>>
    /\ launched = <<>>
    /\ prompt = <<>>
    /\ runs = 1
    /\ prev = NoPrev

(***************************************************************************)
(* Process boundary.  An exception leaving initialize() or run() leaves    *)
(* async_main and asyncio.run: close_checkpointer, which follows run() in  *)
(* async_main, is skipped and the process exits.                           *)
(***************************************************************************)
Raise(e) ==
    /\ exc' = e
    /\ pc' = pc

\* MultiServerMCPClient.get_tools(): loads the tools of every configured
\* provider; a provider that does not start makes the call raise
get_mcp_tools(failing) ==
    IF failing = {} THEN UNION {ProviderTools(p) : p \in Providers} ELSE {}

\* After discovery the saver is entered in an `async with` block, the graph
\* is compiled in it and the block is left, which closes the connection; then
\* the saver is entered again, kept open, and the graph is compiled again
initialize ==
    /\ exc = "none"
    /\ pc = "init"
    /\ ~initialized
    /\ \E failing \in SUBSET Providers :
         /\ started' = Providers \ failing
         /\ IF failing = {}
            THEN /\ tools' = LocalTools \cup get_mcp_tools(failing)
                 /\ initialized' = TRUE
                 /\ opens' = opens + 2
                 /\ closes' = closes + 1
                 /\ handle' = "open"
                 /\ pc' = "run"
                 /\ exc' = exc
            ELSE /\ Raise("DiscoveryError")
                 /\ UNCHANGED <<tools, initialized, handle, opens, closes>>
    /\ UNCHANGED <<messages, step, backend, backendCalls, outcome, sink, launched, prompt, runs, prev>>

\* run(): ainvoke with the greeting as input on thread "1"; the input is
\* applied to the saved channel by the reducer and the graph starts at its
\* entry point
run ==
    /\ exc = "none"
    /\ pc = "run"
    /\ messages' = add_messages(messages, <<Greeting>>)
    /\ pc' = "user_input"
    /\ step' = 0
    /\ UNCHANGED <<exc, initialized, tools, started, handle, opens, closes, backend,
                   backendCalls, outcome, sink, launched, prompt, runs, prev>>

(***************************************************************************)
(* Nodes of the graph.                                                     *)
(***************************************************************************)
user_input ==
    /\ exc = "none"
    /\ pc = "user_input"
    /\ step < RecursionLimit
    /\ messages' = add_messages(messages, <<HumanMessage("input")>>)
    /\ pc' = "model_response"
    /\ step' = step + 1
    /\ UNCHANGED <<exc, initialized, tools, started, handle, opens, closes, backend,
                   backendCalls, outcome, sink, launched, prompt, runs, prev>>

SystemMessage == Msg("system", "policy", <<>>, 0)

ContextMessage == HumanMessage("Working directory")

\* a prompt that carries only the newest message of the conversation
Prompt_newest(msgs) == <<SystemMessage, ContextMessage, Last(msgs)>>

\* the messages model_response sends to the backend
Prompt(msgs) == <<SystemMessage, ContextMessage>> \o msgs

\* the router with its condition inverted
check_tool_use_inverted(msgs) ==
    IF Last(msgs).tool_calls = <<>> THEN "tool_use" ELSE "user_input"

\* conditional router, evaluated on the state the node has just updated
check_tool_use(msgs) ==
    IF Last(msgs).tool_calls # <<>> THEN "tool_use" ELSE "user_input"

\* model_response with a node that calls the backend a second time when the
\* first call fails
model_response_retry(ok, names, ren) ==
    /\ exc = "none"
    /\ pc = "model_response"
    /\ step < RecursionLimit
    /\ backendCalls' = IF ok THEN backendCalls + 1 ELSE backendCalls + 2
    /\ prompt' = Prompt(messages)
    /\ outcome' = <<>>
    /\ launched' = <<>>
    /\ IF ok
       THEN /\ backend' = "ok"
            /\ sink' = <<ren>>
            /\ IF ren = "ok"
               THEN /\ messages' = add_messages(messages, <<Response(Len(messages), names)>>)
                    /\ pc' = check_tool_use(messages')
                    /\ step' = step + 1
                    /\ exc' = exc
               ELSE /\ Raise("RenderError")
                    /\ UNCHANGED <<messages, step>>
       ELSE /\ backend' = "failed"
            /\ sink' = <<>>
            /\ Raise("BackendError")
            /\ UNCHANGED <<messages, step>>
    /\ UNCHANGED <<initialized, tools, started, handle, opens, closes, runs, prev>>

\* ok: the backend answers, with tool calls for `names`; otherwise the call
\* raises and the exception leaves the node, the graph and run().  The panels
\* of the answer are printed before the node returns, outside any try block:
\* a print that raises leaves the node as well and the answer is not returned
model_response(ok, names, ren) ==
    /\ exc = "none"
    /\ pc = "model_response"
    /\ step < RecursionLimit
    /\ backendCalls' = backendCalls + 1
    /\ prompt' = Prompt(messages)
    /\ outcome' = <<>>
    /\ launched' = <<>>
    /\ IF ok
       THEN /\ backend' = "ok"
            /\ sink' = <<ren>>
            /\ IF ren = "ok"
               THEN /\ messages' = add_messages(messages, <<Response(Len(messages), names)>>)
                    /\ pc' = check_tool_use(messages')
                    /\ step' = step + 1
                    /\ exc' = exc
               ELSE /\ Raise("RenderError")
                    /\ UNCHANGED <<messages, step>>
       ELSE /\ backend' = "failed"
            /\ sink' = <<>>
            /\ Raise("BackendError")
            /\ UNCHANGED <<messages, step>>
    /\ UNCHANGED <<initialized, tools, started, handle, opens, closes, runs, prev>>

\* ToolNode([tool]).ainvoke(state): one Tool message per call of the last
\* Assistant message, in the order of the calls; a call that names another
\* tool than the node's is answered with an invalid-tool error
ToolNodeInvoke(tool, calls, out) ==
    [j \in 1..Len(calls) |->
        IF calls[j].name = tool
        THEN ToolMessage(IF out[j] = "ok" THEN "result" ELSE "tool_error", calls[j].id)
        ELSE ToolMessage("invalid_tool", calls[j].id)]

\* the failure of a call the node runs is raised out of ainvoke
ToolNodeRaises(tool, calls, out) ==
    \E j \in 1..Len(calls) : calls[j].name = tool /\ out[j] = "raise"

\* what one iteration of the loop of tool_use, for the requested call tc,
\* appends to the response.  In the try block the first message of the node is
\* appended and then printed; when that print raises, the except block appends
\* an error message for tc as well
Iteration(tc, calls, out, r) ==
    IF ToolNodeRaises(tc.name, calls, out)
    THEN <<ToolMessage("exception", tc.id)>>
    ELSE IF r = "ok"
         THEN <<ToolNodeInvoke(tc.name, calls, out)[1]>>
         ELSE <<ToolNodeInvoke(tc.name, calls, out)[1], ToolMessage("exception", tc.id)>>

\* the print of the except block raises: the exception leaves tool_use
IterationRaises(tc, calls, out, r) ==
    IF ToolNodeRaises(tc.name, calls, out) THEN r # "ok" ELSE r = "fatal"

RECURSIVE ResponseUpTo(_, _, _, _)
\* the response after the first n iterations
ResponseUpTo(n, calls, out, ren) ==
    IF n = 0 THEN <<>>
    ELSE ResponseUpTo(n - 1, calls, out, ren) \o Iteration(calls[n], calls, out, ren[n])

\* the list tool_use returns
tool_use_response(calls, out, ren) == ResponseUpTo(Len(calls), calls, out, ren)

\* ToolNode.ainvoke gathers the calls of the last Assistant message that name
\* the node's tool: they run together
Gathered(tool, calls) == {j \in 1..Len(calls) : calls[j].name = tool}

\* the calls run by each of the first n iterations
Launches(n, calls) == [i \in 1..n |-> Gathered(calls[i].name, calls)]

\* the iterations of tool_use that do not complete: tools_by_name.get(name)
\* returns None for a name that is not registered and ToolNode([None]) raises
\* outside the try block, or a print of the except block raises
Broken(calls, out, ren) ==
    {i \in 1..Len(calls) :
        calls[i].name \notin tools \/ IterationRaises(calls[i], calls, out, ren[i])}

tool_use ==
    /\ exc = "none"
    /\ pc = "tool_use"
    /\ step < RecursionLimit
    /\ LET calls == Last(messages).tool_calls IN
         \E out \in [1..Len(calls) -> Outcomes], ren \in [1..Len(calls) -> Renders] :
            IF Broken(calls, out, ren) # {}
            THEN LET f == CHOOSE i \in Broken(calls, out, ren) :
                             \A j \in Broken(calls, out, ren) : i <= j
                 IN IF calls[f].name \notin tools
                    THEN /\ Raise("ToolNodeError")
                         /\ sink' = SubSeq(ren, 1, f - 1)
                         /\ launched' = Launches(f - 1, calls)
                         /\ UNCHANGED <<messages, step, outcome>>
                    ELSE /\ Raise("RenderError")
                         /\ sink' = SubSeq(ren, 1, f)
                         /\ launched' = Launches(f, calls)
                         /\ UNCHANGED <<messages, step, outcome>>
            ELSE /\ messages' = add_messages(messages, tool_use_response(calls, out, ren))
                 /\ outcome' = out
                 /\ sink' = ren
                 /\ launched' = Launches(Len(calls), calls)
                 /\ pc' = "model_response"
                 /\ step' = step + 1
                 /\ exc' = exc
    /\ UNCHANGED <<initialized, tools, started, handle, opens, closes, backend, backendCalls,
                   prompt, runs, prev>>

\* the loop of ainvoke stops with GraphRecursionError when the supersteps of
\* the invocation are used up
OutOfSteps ==
    /\ exc = "none"
    /\ pc \in Nodes
    /\ step = RecursionLimit
    /\ Raise("GraphRecursionError")
    /\ UNCHANGED <<messages, step, initialized, tools, started, handle, opens, closes,
                   backend, backendCalls, outcome, sink, launched, prompt, runs, prev>>

(***************************************************************************)
(* Environment of the process.                                             *)
(***************************************************************************)
\* the process is killed between two supersteps
Crash ==
    /\ exc = "none"
    /\ pc \in Nodes
    /\ Raise("crash")
    /\ UNCHANGED <<messages, step, initialized, tools, started, handle, opens, closes,
                   backend, backendCalls, outcome, sink, launched, prompt, runs, prev>>

\* the loop is cancelled from outside: the cancellation is raised in run()
Cancel ==
    /\ exc = "none"
    /\ pc \in Nodes
    /\ Raise("Cancelled")
    /\ UNCHANGED <<messages, step, initialized, tools, started, handle, opens, closes,
                   backend, backendCalls, outcome, sink, launched, prompt, runs, prev>>

\* a new process: Agent() is constructed again, checkpoints.db is kept
Start ==
    /\ exc # "none"
    /\ runs < MaxRuns
    /\ prev' = [exc |-> exc, pc |-> pc, messages |-> messages]
    /\ runs' = runs + 1
    /\ pc' = "init"
    /\ exc' = "none"
    /\ step' = 0
    /\ initialized' = FALSE
    /\ tools' = {}
    /\ started' = {}
    /\ handle' = "closed"
    /\ opens' = 0
    /\ closes' = 0
    /\ backend' = "idle"
    /\ backendCalls' = 0
    /\ outcome' = <<>>
    /\ sink' = <<>>
    /\ launched' = <<>>
    /\ prompt' = <<>>
    /\ UNCHANGED messages

Detailed == Len(messages) < MaxDetail

Next ==
    \/ initialize
    \/ run
    \/ user_input
    \/ \E names \in Batches : (names # <<>> => Detailed) /\ model_response(TRUE, names, "ok")
    \/ Detailed /\ model_response(TRUE, <<>>, "fatal")
    \/ Detailed /\ model_response(FALSE, <<>>, "ok")
    \/ tool_use
    \/ OutOfSteps
    \/ Detailed /\ Crash
    \/ Detailed /\ Cancel
    \/ Start

Spec == Init /\ [][Next]_vars

(***************************************************************************)
(* Properties.                                                             *)
(***************************************************************************)
\* the messages a step appends to the conversation
Appended == SubSeq(messages', Len(messages) + 1, Len(messages'))

\* a superstep of tool_use that returned its list
ToolUseStep == exc = "none" /\ pc = "tool_use" /\ step' = step + 1

Requested == Last(messages).tool_calls

IsError(m) == m.content \in {"tool_error", "invalid_tool", "exception"}

Failed(o) == o \in {"error", "raise"}

\* C1: for an Assistant message requesting k >= 1 tool calls, tool_use appends
\* exactly k Tool messages before the next Assistant message, with k pairwise
\* distinct call ids, each the id of a requested call
C1_EveryCallResolvedOnce ==
    [][ToolUseStep =>
          /\ pc' = "model_response"
          /\ Len(Appended) = Len(Requested)
          /\ \A i \in 1..Len(Appended) :
                /\ Appended[i].role = "tool"
                /\ \E j \in 1..Len(Requested) : Appended[i].tool_call_id = Requested[j].id
          /\ \A i, j \in 1..Len(Appended) :
                i # j => Appended[i].tool_call_id # Appended[j].tool_call_id]_vars

\* C2: the i-th Tool message appended by tool_use is the result or the error of
\* the i-th requested call and carries the id of that call
C2_RequestOrder ==
    [][ToolUseStep =>
          \A i \in 1..Len(Requested) :
             /\ i <= Len(Appended)
             /\ Appended[i].tool_call_id = Requested[i].id
             /\ IsError(Appended[i]) <=> Failed(outcome'[i])]_vars

\* exactly one call of a batch of two or more fails
OneFails(out) ==
    /\ Len(out) >= 2
    /\ Cardinality({i \in 1..Len(out) : Failed(out[i])}) = 1

\* C3: when one call of a batch fails and the others succeed, the conversation
\* receives one Tool message per call, an error with the id of the failed call
\* and successes with the ids of the others, and the controller goes on to
\* model_response
C3_Isolation ==
    [][(ToolUseStep /\ OneFails(outcome')) =>
          /\ pc' = "model_response"
          /\ exc' = "none"
          /\ Len(Appended) = Len(Requested)
          /\ \A i \in 1..Len(Requested) :
                \E n \in 1..Len(Appended) :
                   /\ Appended[n].role = "tool"
                   /\ Appended[n].tool_call_id = Requested[i].id
                   /\ IF Failed(outcome'[i])
                      THEN IsError(Appended[n])
                      ELSE Appended[n].content = "result"]_vars

\* the controller has entered its first state in a process started after a crash
ResumedAfterCrash ==
    /\ prev.exc = "crash"
    /\ exc = "none"
    /\ pc \in Nodes
    /\ step = 0

\* C4: after a crash and a restart the conversation the controller starts on
\* is exactly the conversation persisted at the crash
C4_ResumeIdempotent == ResumedAfterCrash => messages = prev.messages

\* every tool call of the Assistant message at i is answered by a Tool message
\* between i and j
ResolvedBefore(i, j) ==
    \A c \in 1..Len(messages[i].tool_calls) :
       \E t \in (i + 1)..(j - 1) :
          /\ messages[t].role = "tool"
          /\ messages[t].tool_call_id = messages[i].tool_calls[c].id

\* C5: a restarted controller resumes at the node it was stopped at, and no
\* persisted conversation has an Assistant message after an Assistant message
\* with an unresolved tool call
C5_ResumeKeepsResolution ==
    /\ ResumedAfterCrash => pc = prev.pc
    /\ \A i, j \in 1..Len(messages) :
          (i < j /\ messages[i].role = "ai" /\ messages[j].role = "ai")
             => ResolvedBefore(i, j)

Transitions ==
    {<<"user_input", "model_response">>, <<"model_response", "tool_use">>,
     <<"model_response", "user_input">>, <<"tool_use", "model_response">>}

\* the last Assistant message of the conversation requests tools
LastAssistantHasCalls ==
    \E i \in 1..Len(messages) :
       /\ messages[i].role = "ai"
       /\ messages[i].tool_calls # <<>>
       /\ \A j \in (i + 1)..Len(messages) : messages[j].role # "ai"

\* C6: the controller starts in user_input on the greeting, moves only along
\* the four edges, leaves model_response for tool_use exactly when the
\* appended Assistant message has tool calls, never is in user_input while the
\* last Assistant message has tool calls and never in tool_use unless the last
\* message is an Assistant message with tool calls
C6_Transitions ==
    /\ []((exc = "none" /\ pc \in Nodes /\ step = 0)
            => (pc = "user_input" /\ Last(messages) = Greeting))
    /\ []((exc = "none" /\ pc = "user_input") => ~LastAssistantHasCalls)
    /\ []((exc = "none" /\ pc = "tool_use")
            => (Last(messages).role = "ai" /\ Last(messages).tool_calls # <<>>))
    /\ [][(exc = "none" /\ pc \in Nodes /\ step' = step + 1) =>
            /\ <<pc, pc'>> \in Transitions
            /\ pc = "model_response" =>
                 /\ Last(messages').role = "ai"
                 /\ pc' = "tool_use" <=> Last(messages').tool_calls # <<>>]_vars

\* a turn went through tool_use and back to user_input
C6_Witness ==
    /\ exc = "none"
    /\ pc = "user_input"
    /\ Len(messages) >= 2
    /\ Last(messages).role = "ai"
    /\ messages[Len(messages) - 1].role = "tool"

\* C7: a failing backend call is the only call of its model_response step,
\* appends nothing, leaves the persisted conversation as it was and ends the
\* run with the error instead of moving the controller
C7_BackendErrorFatal ==
    /\ [][(exc = "none" /\ pc = "model_response" /\ backendCalls' # backendCalls) =>
            /\ backendCalls' = backendCalls + 1
            /\ backend' = "failed" =>
                 /\ messages' = messages
                 /\ pc' = pc
                 /\ step' = step
                 /\ exc' = "BackendError"]_vars
    /\ [][exc = "BackendError" =>
            /\ messages' = messages
            /\ exc' = exc \/ runs' = runs + 1]_vars

\* the backend failed on the Human message of the current turn
C7_Witness ==
    /\ exc = "BackendError"
    /\ backend = "failed"
    /\ Len(messages) >= 2
    /\ Last(messages).role = "human"

\* initialize was called in the current process
InitializeCalled == pc # "init" \/ exc = "DiscoveryError"

\* C8: initialize completes also when providers fail to launch, and the
\* registry holds the local tools and the tools of the providers that started
C8_DiscoveryTolerant ==
    InitializeCalled =>
       /\ exc # "DiscoveryError"
       /\ initialized
       /\ tools = LocalTools \cup UNION {ProviderTools(p) : p \in started}

\* C9: whenever the process run has ended after the store was opened, by an
\* exception leaving run() or by cancellation, the handle of the store has
\* been closed
C9_HandleReleased ==
    (pc \in Nodes /\ exc \notin {"none", "crash"}) => handle = "closed"

\* C10: without a failure of the backend, the store or the console the run
\* stops only by cancellation from outside
C10_NoTerminalState ==
    (pc \in Nodes /\ exc # "none")
       => exc \in {"BackendError", "RenderError", "Cancelled", "crash"}

IsPrefix(s, t) == Len(s) <= Len(t) /\ SubSeq(t, 1, Len(s)) = s

\* C11: the conversation before any step is a prefix of the conversation after
\* it: no appended message is modified, replaced, reordered or removed
C11_AppendOnly == [][IsPrefix(messages, messages')]_vars

\* a second process has seeded its greeting behind a tool round of the first
C11_Witness ==
    /\ runs = 2
    /\ pc \in Nodes
    /\ Last(messages) = Greeting
    /\ \E i \in 1..Len(messages) : messages[i].role = "tool"

\* a print raised during the node step that is being taken
RenderFailure ==
    /\ exc = "none"
    /\ pc \in {"model_response", "tool_use"}
    /\ exc' \in {"none", "RenderError", "ToolNodeError"}
    /\ \E i \in 1..Len(sink') : sink'[i] # "ok"

AllRendered(n) == [i \in 1..n |-> "ok"]

\* C12: a print that raises in model_response or tool_use changes nothing: the
\* step appends the messages it appends when every print succeeds, the
\* controller takes the same transition and is not aborted
C12_SinkIsObserver ==
    [][RenderFailure =>
          /\ exc' = "none"
          /\ step' = step + 1
          /\ pc = "model_response" =>
               /\ Len(Appended) = 1
               /\ Appended[1].role = "ai"
               /\ pc' = check_tool_use(messages')
          /\ pc = "tool_use" =>
               /\ Appended = tool_use_response(Requested, outcome', AllRendered(Len(Requested)))
               /\ pc' = "model_response"]_vars

\* C13: in a tool_use phase at most one invocation is in flight: the call of an
\* iteration is the only call started by it, and no call is started before the
\* iterations of the calls requested before it have completed
C13_OneInFlight ==
    \A i \in 1..Len(launched) :
       /\ Cardinality(launched[i]) <= 1
       /\ \A j \in launched[i] : j <= i

\* tool_use runs on a batch with a call whose name is not in the registry
UnregisteredStep ==
    /\ exc = "none"
    /\ pc = "tool_use"
    /\ step < RecursionLimit
    /\ \E j \in 1..Len(Requested) : Requested[j].name \notin tools
    /\ exc' \notin {"crash", "Cancelled"}

\* C14: for a call that names an unregistered tool, tool_use appends an error
\* Tool message with the id of the call and the controller goes on to
\* model_response; the failure does not leave tool_use
C14_NotFoundRecovered ==
    [][UnregisteredStep =>
          /\ exc' = "none"
          /\ pc' = "model_response"
          /\ \A j \in 1..Len(Requested) :
                Requested[j].name \notin tools =>
                   \E n \in 1..Len(Appended) :
                      /\ IsError(Appended[n])
                      /\ Appended[n].tool_call_id = Requested[j].id]_vars

\* C15: in a tool_use phase every requested call is executed exactly once
C15_ExecutedOnce ==
    [][ToolUseStep =>
          \A j \in 1..Len(Requested) :
             Cardinality({i \in 1..Len(launched') : j \in launched'[i]}) = 1]_vars

\* the last of the Tool messages that directly follow the message at i
FollowEnd(i) ==
    CHOOSE n \in i..Len(messages) :
       /\ \A t \in (i + 1)..n : messages[t].role = "tool"
       /\ n = Len(messages) \/ messages[n + 1].role # "tool"

\* C16: Tool messages are persisted by tool_use only, for the whole batch in
\* one step: behind an Assistant message with tool calls the persisted
\* conversation has no Tool message or a Tool message for every call, never a
\* partially resolved batch
C16_BatchAtomic ==
    /\ [](\A i \in 1..Len(messages) :
            (messages[i].role = "ai" /\ messages[i].tool_calls # <<>>)
               => \/ FollowEnd(i) = i
                  \/ \A c \in 1..Len(messages[i].tool_calls) :
                        \E t \in (i + 1)..FollowEnd(i) :
                           messages[t].tool_call_id = messages[i].tool_calls[c].id)
    /\ [][(\E n \in 1..Len(Appended) : Appended[n].role = "tool") =>
            /\ pc = "tool_use"
            /\ Len(Appended) >= Len(Requested)
            /\ \A n \in 1..Len(Appended) : Appended[n].role = "tool"]_vars

C18_OpenedOnce ==
    (exc = "none" /\ initialized) => (opens = 1 /\ closes = 0 /\ handle = "open")

====
